---- MODULE Spec2Model ----
(***************************************************************************)
(* Guest-token manager (backend/auth.py) and lobby websocket session loop  *)
(* (backend/api/v1/routers.py) of Geodesic.                                *)
(*                                                                         *)
(* Time is the UTC clock in seconds.  Every process is one asyncio task:   *)
(* a websocket connection running lobby_ws, or an HTTP request running     *)
(* create_guest_token.  The AuthManager methods are modelled statement     *)
(* group by statement group, with the asyncio.Lock as explicit state.      *)
(***************************************************************************)
EXTENDS Naturals, Integers, Sequences, FiniteSets, TLC

\* ---------------------------------------------------------------- bounds
TickSeconds == 86400          \* granularity of the modelled clock
MaxTicks == 1                 \* the clock stops after this many ticks
MaxSessionMsgs == 3           \* inbound messages delivered over the sessions of SpecSession
MaxMsgs == 1                  \* inbound messages delivered over all sessions

\* -------------------------------------------------------------- constants
TOKEN_TTL_SECONDS == 60 * 60 * 24

None == "<None>"
EmptyStr == ""
NotClosed == <<>>             \* closeCode when websocket.close was never called
NoRaw == [json |-> None, type |-> None, action |-> None, payload |-> None]

\* a frame handed to websocket.send_json
Frame(t, m) == [type |-> t, message |-> m]

\* what the loop body awaits: a call to a collaborator or a send_json
NoOp == [kind |-> None, fn |-> None, arg |-> <<>>, frame |-> Frame(None, None)]
CallOp(fn, arg) == [kind |-> "call", fn |-> fn, arg |-> arg, frame |-> Frame(None, None)]
SendOp(f) == [kind |-> "send", fn |-> "send_json", arg |-> <<>>, frame |-> f]

ConnSeq == <<"c1", "c2">>     \* websocket connection attempts, in order of arrival
Conns == {ConnSeq[i] : i \in 1..Len(ConnSeq)}
Https == {"h1"}               \* POST /auth/guest requests, one task each
\* the requests of SpecSession: one for the token of each connection
SessionHttps == {"h1", "h2"}
Procs == Conns \cup Https \cup SessionHttps

TokenSeq == <<"tokA", "tokB">>   \* values secrets.token_urlsafe returns, in order
TokenIds == {TokenSeq[i] : i \in 1..Len(TokenSeq)}
TokenArgs == TokenIds \cup {None, EmptyStr}
\* the ?token= values a websocket client presents: the first token the server
\* hands out (unknown to it before it is issued and after it is revoked),
\* none, or the empty string
PresentedTokens == {TokenSeq[1], None, EmptyStr}
Uuids == <<"u1", "u2", "u3">> \* values str(uuid4()) returns, in order

\* message types lobby_ws dispatches on
KnownTypes == {"rename", "ping", "create_room", "join_room", "leave_room",
               "start_game", "game_action"}

\* Inbound texts, by what json.loads makes of them: a syntax error
\* (JSONDecodeError), nesting too deep for the decoder (RecursionError), an
\* integer literal beyond the digit limit of int (ValueError), a JSON array
\* (a JSON scalar or null fares the same), or an object whose "type" entry
\* is the given value (None when the object has no "type" key). A game_action
\* object carries an "action" entry and a "payload" entry that is absent
\* (None), present but falsy ("0": 0, "", [], {}, false, null) or a non-empty
\* object.
Raws == [json : {"invalid", "too_deep", "huge_int", "array"}, type : {None},
         action : {None}, payload : {None}]
        \cup [json : {"object"},
              type : (KnownTypes \ {"game_action"}) \cup {"bogus", None},
              action : {None}, payload : {None}]
        \cup [json : {"object"}, type : {"game_action"}, action : {"move"},
              payload : {None, "0", "{x}"}]

\* the texts sent to the sessions of SpecSession: one answered by a frame
\* alone, one by a registry call and, when that fails, a frame
SessionRaws == {r \in Raws : r.type \in {"ping", "join_room"}}

\* What the collaborators answer while one message is dispatched:
\* reason  None when create_room / join_room / start_game succeeds, else the
\*         reason it returns with ok = False
\* room    get_room_id_for_member and get_room: the member is in no room, the
\*         room id resolves to no room, the room has no game, or it has one
\* rule    game_service.apply_action raises GameRuleError
\* peer    "gone" when websocket.send_json finds the connection closed and
\*         raises WebSocketDisconnect
Envs == [reason : {None, "Room is full."},
         room : {"none", "gone", "nogame", "game"}, rule : BOOLEAN,
         peer : {"open", "gone"}]

\* the lookups of game_action depend on room alone; what an awaited call or
\* send comes back with depends on reason, rule and peer alone
LookupEnvs == {e \in Envs : e.reason = None /\ ~e.rule /\ e.peer = "open"}
AnswerEnvs == {e \in Envs : e.room = "game"}

\* message types whose registry function answers (ok, info)
RegOps == {"create_room", "join_room", "start_game"}
GameRoom == "r1"              \* room id get_room_id_for_member answers
GameId == "g1"                \* game_id of the room get_room answers
CallerId == [p \in Procs |-> "m-" \o p]   \* claimant identity a direct caller passes

VARIABLES
    clock,        \* datetime.now(timezone.utc), in seconds
    tokens,       \* AuthManager._tokens: dict token -> TokenInfo
    issued,       \* tokens secrets.token_urlsafe has returned so far
    lock,         \* AuthManager._lock: None or the task holding it
    apc,          \* position of each task inside an AuthManager method
    aarg,         \* method and arguments of the AuthManager call in progress
    anow,         \* local `now` of the call in progress
    ares,         \* value the finished call returned
    wins          \* token -> number of claim_token calls that returned it

authVars == <<clock, tokens, issued, lock, apc, aarg, anow, ares, wins>>

VARIABLES
    pc,           \* position of each connection task inside lobby_ws
    ctoken,       \* lobby_ws parameter `token`
    member_id,    \* local member_id = str(uuid4())
    token_info,   \* local token_info
    member,       \* local member (None until lobby_manager.connect returns)
    closeCode,    \* codes passed to websocket.close, in order
    raw,          \* text returned by websocket.receive_text
    pending,      \* the call or send the loop body is awaiting
    sent,         \* frames passed to websocket.send_json, in order, each
                  \* with the number of the message being dispatched
    exc,          \* exception that left lobby_ws, None if it returned
    uuids,        \* number of uuid4() calls so far
    registry,     \* participants registered in lobby_manager
    calls,        \* per connection: calls made to lobby_manager, game_service
                  \* and auth_manager.revoke_token, in order
    inbox         \* per connection: texts receive_text has returned, in order

wsVars == <<pc, ctoken, member_id, token_info, member, closeCode, raw, pending,
            sent, exc, uuids, registry, calls, inbox>>

vars == <<authVars, wsVars>>

\* ------------------------------------------------------------ TokenInfo
TokenInfo(token, now) ==
    [token |-> token, issued_at |-> now,
     expires_at |-> now + TOKEN_TTL_SECONDS, member_id |-> None]

\* the value None where an Optional[TokenInfo] is expected
NoInfo == [token |-> None, issued_at |-> 0, expires_at |-> 0, member_id |-> None]

\* `not token`: None and the empty string
Falsy(x) == x \in {None, EmptyStr}

\* self._tokens[token] = info
Store(toks, t, info) == [x \in DOMAIN toks \cup {t} |-> IF x = t THEN info ELSE toks[x]]

\* self._tokens.get(token)
Get(toks, t) == IF t \in DOMAIN toks THEN toks[t] ELSE NoInfo

\* a pop that leaves the dict as it is
PopNothing(toks, t) == toks

\* self._tokens.pop(token, None)
Pop(toks, t) == [x \in DOMAIN toks \ {t} |-> toks[x]]

\* revoke_token as a whole, lines 58-62
RevokeToken(toks, t) == IF Falsy(t) THEN toks ELSE Pop(toks, t)

NoArgs == [op |-> None, token |-> None, member_id |-> None]

\* a lock that never makes a task wait
LockIgnored(l) == TRUE

\* asyncio.Lock: acquire proceeds only when no task holds the lock
LockAvailable(l) == l = None

\* ------------------------------------------------- AuthManager.issue_guest_token
\* lines 31-37: draw the token, read the clock, build the TokenInfo
IssueEnter(p) ==
    /\ apc[p] = "issue_enter"
    /\ LET t == TokenSeq[Cardinality(issued) + 1]
       IN  /\ issued' = issued \cup {t}
           /\ aarg' = [aarg EXCEPT ![p] = [op |-> "issue", token |-> t, member_id |-> None]]
    /\ anow' = [anow EXCEPT ![p] = clock]
    /\ apc' = [apc EXCEPT ![p] = "issue_lock"]
    /\ UNCHANGED <<clock, tokens, lock, ares, wins>>

\* lines 38-40: under the lock, store the TokenInfo and return it
IssueLocked(p) ==
    /\ apc[p] = "issue_lock"
    /\ LockAvailable(lock)
    /\ tokens' = Store(tokens, aarg[p].token, TokenInfo(aarg[p].token, anow[p]))
    /\ ares' = [ares EXCEPT ![p] = TokenInfo(aarg[p].token, anow[p])]
    /\ apc' = [apc EXCEPT ![p] = "ret"]
    /\ UNCHANGED <<clock, issued, lock, aarg, anow, wins>>

\* ------------------------------------------------- AuthManager.claim_token
\* lines 43-45: reject a falsy token, otherwise read the clock
ClaimEnter(p) ==
    /\ apc[p] = "claim_enter"
    /\ IF Falsy(aarg[p].token)
         THEN /\ ares' = [ares EXCEPT ![p] = NoInfo]
              /\ apc' = [apc EXCEPT ![p] = "ret"]
              /\ anow' = anow
         ELSE /\ anow' = [anow EXCEPT ![p] = clock]
              /\ apc' = [apc EXCEPT ![p] = "claim_lock"]
              /\ ares' = ares
    /\ UNCHANGED <<clock, tokens, issued, lock, aarg, wins>>

\* an expiry test that still accepts the token at the expiry instant
ExpiredStrict(info, now) == info.expires_at < now

\* line 50: the expiry test
Expired(info, now) == info.expires_at <= now

\* a claim_token without the test of line 53
NeverClaimed(info) == FALSE

\* line 53: the already-claimed test
Claimed(info) == info.member_id # None

\* lines 46-54: acquire the lock, look the token up, run the three tests
ClaimCheck(p) ==
    /\ apc[p] = "claim_lock"
    /\ LockAvailable(lock)
    /\ LET t == aarg[p].token
           info == Get(tokens, t)
       IN  IF info = NoInfo
             THEN /\ ares' = [ares EXCEPT ![p] = NoInfo]
                  /\ apc' = [apc EXCEPT ![p] = "ret"]
                  /\ UNCHANGED <<tokens, lock>>
           ELSE IF Expired(info, anow[p])
             THEN /\ tokens' = Pop(tokens, t)
                  /\ ares' = [ares EXCEPT ![p] = NoInfo]
                  /\ apc' = [apc EXCEPT ![p] = "ret"]
                  /\ UNCHANGED lock
           ELSE IF Claimed(info)
             THEN /\ ares' = [ares EXCEPT ![p] = NoInfo]
                  /\ apc' = [apc EXCEPT ![p] = "ret"]
                  /\ UNCHANGED <<tokens, lock>>
           ELSE /\ lock' = p
                /\ apc' = [apc EXCEPT ![p] = "claim_set"]
                /\ UNCHANGED <<tokens, ares>>
    /\ UNCHANGED <<clock, issued, aarg, anow, wins>>

\* lines 55-56: set the claimant, return the TokenInfo, release the lock
ClaimSet(p) ==
    /\ apc[p] = "claim_set"
    /\ LET t == aarg[p].token
           info == [Get(tokens, t) EXCEPT !.member_id = aarg[p].member_id]
       IN  /\ tokens' = IF t \in DOMAIN tokens THEN Store(tokens, t, info) ELSE tokens
           /\ ares' = [ares EXCEPT ![p] = info]
           /\ wins' = [wins EXCEPT ![t] = @ + 1]
    /\ lock' = IF lock = p THEN None ELSE lock
    /\ apc' = [apc EXCEPT ![p] = "ret"]
    /\ UNCHANGED <<clock, issued, aarg, anow>>

\* ------------------------------------------------- AuthManager.revoke_token
\* lines 59-60: a falsy token returns at once
RevokeEnter(p) ==
    /\ apc[p] = "revoke_enter"
    /\ apc' = [apc EXCEPT ![p] = IF Falsy(aarg[p].token) THEN "ret" ELSE "revoke_lock"]
    /\ ares' = [ares EXCEPT ![p] = NoInfo]
    /\ UNCHANGED <<clock, tokens, issued, lock, aarg, anow, wins>>

\* lines 61-62: under the lock, drop the token
RevokeLocked(p) ==
    /\ apc[p] = "revoke_lock"
    /\ LockAvailable(lock)
    /\ tokens' = RevokeToken(tokens, aarg[p].token)
    /\ apc' = [apc EXCEPT ![p] = "ret"]
    /\ UNCHANGED <<clock, issued, lock, aarg, anow, ares, wins>>

AuthStep(p) ==
    \/ IssueEnter(p)
    \/ IssueLocked(p)
    \/ ClaimEnter(p)
    \/ ClaimCheck(p)
    \/ ClaimSet(p)
    \/ RevokeEnter(p)
    \/ RevokeLocked(p)

\* ---------------------------------------------------------------- clock
\* time passes, as long as the clock is short of the given instant
TickUntil(horizon) ==
    /\ clock < horizon
    /\ clock' = clock + TickSeconds
    /\ UNCHANGED <<tokens, issued, lock, apc, aarg, anow, ares, wins>>

Tick == TickUntil(MaxTicks * TickSeconds)

\* --------------------------------------------- direct callers of AuthManager
CallIssue(p) ==
    /\ apc[p] = "idle"
    /\ Cardinality(issued) + Cardinality({q \in Procs : apc[q] = "issue_enter"})
          < Len(TokenSeq)
    /\ apc' = [apc EXCEPT ![p] = "issue_enter"]
    /\ aarg' = [aarg EXCEPT ![p] = [op |-> "issue", token |-> None, member_id |-> None]]
    /\ UNCHANGED <<clock, tokens, issued, lock, anow, ares, wins>>

CallClaim(p, t, m) ==
    /\ apc[p] = "idle"
    /\ apc' = [apc EXCEPT ![p] = "claim_enter"]
    /\ aarg' = [aarg EXCEPT ![p] = [op |-> "claim", token |-> t, member_id |-> m]]
    /\ UNCHANGED <<clock, tokens, issued, lock, anow, ares, wins>>

CallRevoke(p, t) ==
    /\ apc[p] = "idle"
    /\ apc' = [apc EXCEPT ![p] = "revoke_enter"]
    /\ aarg' = [aarg EXCEPT ![p] = [op |-> "revoke", token |-> t, member_id |-> None]]
    /\ UNCHANGED <<clock, tokens, issued, lock, anow, ares, wins>>

Return(p) ==
    /\ apc[p] = "ret"
    /\ apc' = [apc EXCEPT ![p] = "idle"]
    /\ aarg' = [aarg EXCEPT ![p] = NoArgs]
    /\ anow' = [anow EXCEPT ![p] = 0]
    /\ ares' = [ares EXCEPT ![p] = NoInfo]
    /\ UNCHANGED <<clock, tokens, issued, lock, wins>>

AuthInit ==
    /\ clock = 0
    /\ tokens = <<>>
    /\ issued = {}
    /\ lock = None
    /\ apc = [p \in Procs |-> "idle"]
    /\ aarg = [p \in Procs |-> NoArgs]
    /\ anow = [p \in Procs |-> 0]
    /\ ares = [p \in Procs |-> NoInfo]
    /\ wins = [t \in TokenIds |-> 0]

WsInit ==
    /\ pc = [c \in Conns |-> "idle"]
    /\ ctoken = [c \in Conns |-> None]
    /\ member_id = [c \in Conns |-> None]
    /\ token_info = [c \in Conns |-> NoInfo]
    /\ member = [c \in Conns |-> None]
    /\ closeCode = [c \in Conns |-> NotClosed]
    /\ raw = [c \in Conns |-> NoRaw]
    /\ pending = [c \in Conns |-> NoOp]
    /\ sent = [c \in Conns |-> <<>>]
    /\ exc = [c \in Conns |-> None]
    /\ uuids = 0
    /\ registry = {}
    /\ calls = [c \in Conns |-> <<>>]
    /\ inbox = [c \in Conns |-> <<>>]

Init == AuthInit /\ WsInit

\* ------------------------------------------------------------- lobby_ws
\* a reply to ping that is not a pong frame
NotPong == Frame("error", None)

\* line 71: {"type": "pong"}
Pong == Frame("pong", None)

\* lines 43, 48: websocket.close(code=1008)
RefusalClose == 1008

\* lines 56, 61: websocket.close(code=1000)
ExpiryClose == 1000

\* line 64: json.loads raises JSONDecodeError
ParseFails(r) == r.json = "invalid"

\* line 64: json.loads raises an exception line 65 does not catch
ParseError(r) == IF r.json = "too_deep" THEN "RecursionError"
                 ELSE IF r.json = "huge_int" THEN "ValueError" ELSE None

\* line 67: payload.get exists only when the parsed value is a dict
HasGet(r) == r.json = "object"

\* a call to a collaborator: function, arguments, and what it answered
Call(fn, arg, res) == [fn |-> fn, arg |-> arg, res |-> res]

\* what the loop body does from one await to the next: the calls that
\* returned, the frames sent, the call or send it is now awaiting, and where
\* it goes: "await", "loop" (the loop top), or the exception raised
Out(c, f, p, n) == [calls |-> c, frames |-> f, pending |-> p, next |-> n]

\* the payload handed to apply_action as the message carries it
PayloadAsGiven(r) == r.payload

\* line 96: payload.get("payload") or {}
ActionPayload(r) == IF r.payload \in {None, "0", "{}"} THEN "{}" ELSE r.payload

\* a registry operation whose failure is not reported to the client
RegOpSilent(op, e) ==
    Out(<<Call(op.fn, op.arg, IF e.reason = None THEN "ok" ELSE e.reason)>>,
        <<>>, NoOp, "loop")

\* lines 73-75, 77-79, 83-85: create_room, join_room, start_game have
\* returned (ok, info); when ok is False info goes out in an error frame
RegOp(op, e) ==
    IF e.reason = None
      THEN Out(<<Call(op.fn, op.arg, "ok")>>, <<>>, NoOp, "loop")
      ELSE Out(<<Call(op.fn, op.arg, e.reason)>>, <<>>,
               SendOp(Frame("error", e.reason)), "await")

\* lines 97-102: apply_action has returned or raised GameRuleError
Applied(op, e) ==
    IF e.rule
      THEN Out(<<Call(op.fn, op.arg, "GameRuleError")>>, <<>>,
               SendOp(Frame("game_error", "Illegal action.")), "await")
      ELSE Out(<<Call(op.fn, op.arg, "ok")>>, <<>>,
               CallOp("broadcast_game_update", <<GameRoom>>), "await")

\* the answers of get_room_id_for_member and get_room
RoomIdAnswer(e) == IF e.room = "none" THEN None ELSE GameRoom
RoomAnswer(e) == IF e.room = "gone" THEN None
                 ELSE IF e.room = "nogame" THEN "no game" ELSE GameId

\* game_action without the test of line 88
GameActionNoRoomTest(r, m, e) ==
    LET lookup == Call("get_room_id_for_member", <<m>>, RoomIdAnswer(e))
        room == Call("get_room", <<RoomIdAnswer(e)>>,
                     IF e.room \in {"none", "gone"} THEN None ELSE RoomAnswer(e))
    IN  IF e.room \in {"none", "gone", "nogame"}
          THEN Out(<<lookup, room>>, <<>>,
                   SendOp(Frame("game_error", "No active game.")), "await")
          ELSE Out(<<lookup, room>>, <<>>,
                   CallOp("apply_action", <<GameId, m, r.action, ActionPayload(r)>>),
                   "await")

\* game_action without the test of line 92
GameActionNoGameTest(r, m, e) ==
    LET lookup == Call("get_room_id_for_member", <<m>>, RoomIdAnswer(e))
        room == Call("get_room", <<GameRoom>>, RoomAnswer(e))
    IN  IF e.room = "none"
          THEN Out(<<lookup>>, <<>>,
                   SendOp(Frame("game_error", "You are not in a room.")), "await")
          ELSE Out(<<lookup, room>>, <<>>,
                   CallOp("apply_action",
                          <<RoomAnswer(e), m, r.action, ActionPayload(r)>>),
                   "await")

\* lines 86-98: game_action up to its first await; the two lookups are
\* plain calls
GameAction(r, m, e) ==
    LET lookup == Call("get_room_id_for_member", <<m>>, RoomIdAnswer(e))
        room == Call("get_room", <<GameRoom>>, RoomAnswer(e))
    IN  IF e.room = "none"
          THEN Out(<<lookup>>, <<>>,
                   SendOp(Frame("game_error", "You are not in a room.")), "await")
        ELSE IF e.room \in {"gone", "nogame"}
          THEN Out(<<lookup, room>>, <<>>,
                   SendOp(Frame("game_error", "No active game.")), "await")
        ELSE Out(<<lookup, room>>, <<>>,
                 CallOp("apply_action", <<GameId, m, r.action, ActionPayload(r)>>),
                 "await")

\* lines 63-98: the loop body for text r of participant m, from json.loads
\* to its first await
Handle(r, m, e) ==
    IF ParseFails(r) THEN Out(<<>>, <<>>, NoOp, "loop")
    ELSE IF ParseError(r) # None THEN Out(<<>>, <<>>, NoOp, ParseError(r))
    ELSE IF ~HasGet(r) THEN Out(<<>>, <<>>, NoOp, "AttributeError")
    ELSE IF r.type = "rename" THEN Out(<<>>, <<>>, CallOp("rename", <<m>>), "await")
    ELSE IF r.type = "ping" THEN Out(<<>>, <<>>, SendOp(Pong), "await")
    ELSE IF r.type \in RegOps THEN Out(<<>>, <<>>, CallOp(r.type, <<m>>), "await")
    ELSE IF r.type = "leave_room"
      THEN Out(<<>>, <<>>, CallOp("leave_room", <<m>>), "await")
    ELSE IF r.type = "game_action" THEN GameAction(r, m, e)
    ELSE Out(<<>>, <<>>, NoOp, "loop")

\* lines 69-102: the awaited call or send op has returned or raised; the
\* body runs on to its next await or to the loop top
Continue(op, e) ==
    IF op.kind = "send"
      THEN IF e.peer = "gone"
             THEN Out(<<>>, <<>>, NoOp, "WebSocketDisconnect")
             ELSE Out(<<>>, <<op.frame>>, NoOp, "loop")
    ELSE IF op.fn \in RegOps THEN RegOp(op, e)
    ELSE IF op.fn = "apply_action" THEN Applied(op, e)
    ELSE Out(<<Call(op.fn, op.arg, "ok")>>, <<>>, NoOp, "loop")

\* entries of a log, each with the number of the message being dispatched
\* (0 outside the dispatch of a message)
Logged(k, seq) == [i \in 1..Len(seq) |-> [msg |-> k, item |-> seq[i]]]

\* number of inbound messages delivered so far, over all connections
RECURSIVE DeliveredTo(_)
DeliveredTo(S) ==
    IF S = {} THEN 0
    ELSE LET c == CHOOSE x \in S : TRUE
         IN  Len(inbox[c]) + DeliveredTo(S \ {c})
Delivered == DeliveredTo(Conns)

\* a gate that tests for None alone, which lets the empty string through
IsNone(x) == x = None

\* line 42: `if not token`
NoToken(t) == Falsy(t)

\* lines 41-46: the pre-auth gate, then uuid4 and the call of claim_token
WsConnect(c, t) ==
    /\ pc[c] = "idle"
    /\ apc[c] = "idle"
    /\ \A i \in 1..Len(ConnSeq) : ConnSeq[i] = c => \A j \in 1..(i-1) : pc[ConnSeq[j]] # "idle"
    /\ ctoken' = [ctoken EXCEPT ![c] = t]
    /\ IF NoToken(t)
         THEN /\ closeCode' = [closeCode EXCEPT ![c] = Append(@, RefusalClose)]
              /\ pc' = [pc EXCEPT ![c] = "done"]
              /\ UNCHANGED <<member_id, uuids, apc, aarg>>
         ELSE /\ uuids < Len(Uuids)
              /\ uuids' = uuids + 1
              /\ member_id' = [member_id EXCEPT ![c] = Uuids[uuids + 1]]
              /\ apc' = [apc EXCEPT ![c] = "claim_enter"]
              /\ aarg' = [aarg EXCEPT ![c] = [op |-> "claim", token |-> t,
                                               member_id |-> Uuids[uuids + 1]]]
              /\ pc' = [pc EXCEPT ![c] = "claim"]
              /\ UNCHANGED closeCode
    /\ UNCHANGED <<clock, tokens, issued, lock, anow, ares, wins>>
    /\ UNCHANGED <<token_info, member, raw, pending, sent, exc, registry, calls, inbox>>

\* a handler that goes on to join whatever claim_token returned
AfterClaimUnchecked(c) ==
    /\ pc[c] = "claim"
    /\ apc[c] = "ret"
    /\ token_info' = [token_info EXCEPT ![c] = ares[c]]
    /\ pc' = [pc EXCEPT ![c] = "join"]
    /\ apc' = [apc EXCEPT ![c] = "idle"]
    /\ aarg' = [aarg EXCEPT ![c] = NoArgs]
    /\ anow' = [anow EXCEPT ![c] = 0]
    /\ ares' = [ares EXCEPT ![c] = NoInfo]
    /\ UNCHANGED <<clock, tokens, issued, lock, wins>>
    /\ UNCHANGED <<ctoken, member_id, member, closeCode, raw, pending, sent, exc, uuids,
                   registry, calls, inbox>>

\* a handler whose refusal after claim_token sits inside the try block, so
\* that the finally block revokes the token the connection presented
AfterClaimRevokes(c) ==
    /\ pc[c] = "claim"
    /\ apc[c] = "ret"
    /\ IF ares[c] = NoInfo
         THEN /\ closeCode' = [closeCode EXCEPT ![c] = Append(@, RefusalClose)]
              /\ pc' = [pc EXCEPT ![c] = "finally"]
              /\ UNCHANGED token_info
         ELSE /\ token_info' = [token_info EXCEPT ![c] = ares[c]]
              /\ pc' = [pc EXCEPT ![c] = "join"]
              /\ UNCHANGED closeCode
    /\ apc' = [apc EXCEPT ![c] = "idle"]
    /\ aarg' = [aarg EXCEPT ![c] = NoArgs]
    /\ anow' = [anow EXCEPT ![c] = 0]
    /\ ares' = [ares EXCEPT ![c] = NoInfo]
    /\ UNCHANGED <<clock, tokens, issued, lock, wins>>
    /\ UNCHANGED <<ctoken, member_id, member, raw, pending, sent, exc, uuids, registry,
                   calls, inbox>>

\* lines 46-50: claim_token has returned
AfterClaim(c) ==
    /\ pc[c] = "claim"
    /\ apc[c] = "ret"
    /\ IF ares[c] = NoInfo
         THEN /\ closeCode' = [closeCode EXCEPT ![c] = Append(@, RefusalClose)]
              /\ pc' = [pc EXCEPT ![c] = "done"]
              /\ UNCHANGED token_info
         ELSE /\ token_info' = [token_info EXCEPT ![c] = ares[c]]
              /\ pc' = [pc EXCEPT ![c] = "join"]
              /\ UNCHANGED closeCode
    /\ apc' = [apc EXCEPT ![c] = "idle"]
    /\ aarg' = [aarg EXCEPT ![c] = NoArgs]
    /\ anow' = [anow EXCEPT ![c] = 0]
    /\ ares' = [ares EXCEPT ![c] = NoInfo]
    /\ UNCHANGED <<clock, tokens, issued, lock, wins>>
    /\ UNCHANGED <<ctoken, member_id, member, raw, pending, sent, exc, uuids, registry,
                   calls, inbox>>

\* connection c claimed its token: token_info was bound at line 46
ClaimSucceeded(c) == token_info[c] # NoInfo

\* lobby_manager.connect: Join(transport, requestedName, identity)
RegistryJoin(reg, m) == reg \cup {m}

\* lobby_manager.disconnect: Remove(identity)
RegistryRemove(reg, m) == reg \ {m}

\* lines 52, 103-104: lobby_manager.connect registers the participant, or
\* raises; a WebSocketDisconnect is swallowed by the except clause
Join(c) ==
    /\ pc[c] = "join"
    /\ \/ /\ registry' = RegistryJoin(registry, member_id[c])
          /\ calls' = [calls EXCEPT ![c] = @ \o
                          Logged(0, <<Call("connect", <<member_id[c]>>, member_id[c])>>)]
          /\ member' = [member EXCEPT ![c] = member_id[c]]
          /\ pc' = [pc EXCEPT ![c] = "loop"]
          /\ UNCHANGED exc
       \/ /\ exc' = [exc EXCEPT ![c] = "ConnectError"]
          /\ calls' = [calls EXCEPT ![c] = @ \o
                          Logged(0, <<Call("connect", <<member_id[c]>>, "ConnectError")>>)]
          /\ pc' = [pc EXCEPT ![c] = "finally"]
          /\ UNCHANGED <<registry, member>>
       \/ /\ calls' = [calls EXCEPT ![c] = @ \o
                          Logged(0, <<Call("connect", <<member_id[c]>>,
                                           "WebSocketDisconnect")>>)]
          /\ pc' = [pc EXCEPT ![c] = "finally"]
          /\ UNCHANGED <<registry, member, exc>>
    /\ UNCHANGED authVars
    /\ UNCHANGED <<ctoken, member_id, token_info, closeCode, raw, pending, sent, uuids,
                   inbox>>

\* line 54: (token_info.expires_at - now).total_seconds()
Timeout(info, now) == info.expires_at - now

\* lines 54-57: the remaining TTL at the top of an iteration
LoopTop(c) ==
    /\ pc[c] = "loop"
    /\ IF Timeout(token_info[c], clock) <= 0
         THEN /\ closeCode' = [closeCode EXCEPT ![c] = Append(@, ExpiryClose)]
              /\ pc' = [pc EXCEPT ![c] = "finally"]
         ELSE /\ pc' = [pc EXCEPT ![c] = "recv"]
              /\ UNCHANGED closeCode
    /\ UNCHANGED authVars
    /\ UNCHANGED <<ctoken, member_id, token_info, member, raw, pending, sent, exc, uuids,
                   registry, calls, inbox>>

\* a reader that takes the next text while the last one is still being
\* dispatched
ReceiveAnytime(c, r, quota) ==
    /\ pc[c] \in {"recv", "dispatch", "await"}
    /\ Delivered < quota
    /\ raw' = [raw EXCEPT ![c] = r]
    /\ inbox' = [inbox EXCEPT ![c] = Append(@, r)]
    /\ pc' = [pc EXCEPT ![c] = "dispatch"]
    /\ UNCHANGED authVars
    /\ UNCHANGED <<ctoken, member_id, token_info, member, closeCode, pending,
                   sent, exc, uuids, registry, calls>>

\* line 59: wait_for returns a text, while fewer than quota texts have been
\* delivered. The text can come at or after the expiry: the timer is armed
\* after line 54 read the clock, and a text that is there when the waiter
\* resumes is returned even if the timer has fired.
Receive(c, r, quota) ==
    /\ pc[c] = "recv"
    /\ Delivered < quota
    /\ raw' = [raw EXCEPT ![c] = r]
    /\ inbox' = [inbox EXCEPT ![c] = Append(@, r)]
    /\ pc' = [pc EXCEPT ![c] = "dispatch"]
    /\ UNCHANGED authVars
    /\ UNCHANGED <<ctoken, member_id, token_info, member, closeCode, pending,
                   sent, exc, uuids, registry, calls>>

Recv(c, r) == Receive(c, r, MaxMsgs)

\* a receive_text awaited without asyncio.wait_for: no timeout ever ends it
RecvWithoutTimeout(c) ==
    /\ FALSE
    /\ UNCHANGED vars

\* lines 59-62: asyncio.wait_for runs into the timeout
RecvTimeout(c) ==
    /\ pc[c] = "recv"
    /\ clock >= token_info[c].expires_at
    /\ closeCode' = [closeCode EXCEPT ![c] = Append(@, ExpiryClose)]
    /\ pc' = [pc EXCEPT ![c] = "finally"]
    /\ UNCHANGED authVars
    /\ UNCHANGED <<ctoken, member_id, token_info, member, raw, pending, sent, exc, uuids,
                   registry, calls, inbox>>

\* lines 59, 103-104: receive_text raises WebSocketDisconnect
RecvDisconnect(c) ==
    /\ pc[c] = "recv"
    /\ pc' = [pc EXCEPT ![c] = "finally"]
    /\ UNCHANGED authVars
    /\ UNCHANGED <<ctoken, member_id, token_info, member, closeCode, raw, pending, sent,
                   exc, uuids, registry, calls, inbox>>

\* the loop body of connection c moves on as out says; a
\* WebSocketDisconnect is swallowed at lines 103-104
Advance(c, out) ==
    LET k == Len(inbox[c])
    IN  /\ calls' = [calls EXCEPT ![c] = @ \o Logged(k, out.calls)]
        /\ sent' = [sent EXCEPT ![c] = @ \o Logged(k, out.frames)]
        /\ pending' = [pending EXCEPT ![c] = out.pending]
        /\ IF out.next = "await"
             THEN /\ pc' = [pc EXCEPT ![c] = "await"]
                  /\ UNCHANGED <<exc, raw>>
             ELSE /\ raw' = [raw EXCEPT ![c] = NoRaw]
                  /\ IF out.next = "loop"
                       THEN /\ pc' = [pc EXCEPT ![c] = "loop"]
                            /\ UNCHANGED exc
                     ELSE IF out.next = "WebSocketDisconnect"
                       THEN /\ pc' = [pc EXCEPT ![c] = "finally"]
                            /\ UNCHANGED exc
                     ELSE /\ pc' = [pc EXCEPT ![c] = "finally"]
                          /\ exc' = [exc EXCEPT ![c] = out.next]
        /\ UNCHANGED authVars
        /\ UNCHANGED <<ctoken, member_id, token_info, member, closeCode, uuids,
                       registry, inbox>>

\* lines 63-98: parse the received text and run to the first await
Dispatch(c) ==
    /\ pc[c] = "dispatch"
    /\ \E e \in LookupEnvs : Advance(c, Handle(raw[c], member[c], e))

\* lines 69-102: the awaited call or send returns or raises
Resume(c) ==
    /\ pc[c] = "await"
    /\ \E e \in AnswerEnvs : Advance(c, Continue(pending[c], e))

\* line 108: revoke_token is called
EnterRevoke(c) ==
    /\ apc[c] = "idle"
    /\ calls' = [calls EXCEPT ![c] = @ \o Logged(0,
                    <<Call("revoke_token", <<ctoken[c]>>, "ok")>>)]
    /\ apc' = [apc EXCEPT ![c] = "revoke_enter"]
    /\ aarg' = [aarg EXCEPT ![c] = [op |-> "revoke", token |-> ctoken[c],
                                     member_id |-> None]]
    /\ pc' = [pc EXCEPT ![c] = "revoke"]
    /\ UNCHANGED <<clock, tokens, issued, lock, anow, ares, wins>>
    /\ UNCHANGED <<ctoken, member_id, token_info, member, closeCode, raw, pending, sent,
                   exc, uuids, registry, inbox>>

\* lines 105-108: if connect returned a participant lobby_manager.disconnect
\* is called for it: it removes the participant and is awaited, or it raises
\* and lobby_ws ends with its exception, line 108 not reached; without a
\* participant revoke_token is called at once
Finally(c) ==
    /\ pc[c] = "finally"
    /\ IF member[c] # None
         THEN /\ \/ /\ registry' = RegistryRemove(registry, member[c])
                    /\ calls' = [calls EXCEPT ![c] = @ \o Logged(0,
                                    <<Call("disconnect", <<member[c]>>, "ok")>>)]
                    /\ pc' = [pc EXCEPT ![c] = "disconnect"]
                    /\ UNCHANGED exc
                 \/ /\ calls' = [calls EXCEPT ![c] = @ \o Logged(0,
                                    <<Call("disconnect", <<member[c]>>,
                                           "DisconnectError")>>)]
                    /\ pc' = [pc EXCEPT ![c] = "done"]
                    /\ exc' = [exc EXCEPT ![c] = "DisconnectError"]
                    /\ UNCHANGED registry
              /\ UNCHANGED authVars
              /\ UNCHANGED <<ctoken, member_id, token_info, member, closeCode, raw,
                             pending, sent, uuids, inbox>>
         ELSE EnterRevoke(c)

\* lines 107-108: lobby_manager.disconnect has returned
AfterDisconnect(c) ==
    /\ pc[c] = "disconnect"
    /\ EnterRevoke(c)

\* line 108: revoke_token has returned; lobby_ws ends
AfterRevoke(c) ==
    /\ pc[c] = "revoke"
    /\ apc[c] = "ret"
    /\ pc' = [pc EXCEPT ![c] = "done"]
    /\ apc' = [apc EXCEPT ![c] = "idle"]
    /\ aarg' = [aarg EXCEPT ![c] = NoArgs]
    /\ anow' = [anow EXCEPT ![c] = 0]
    /\ ares' = [ares EXCEPT ![c] = NoInfo]
    /\ UNCHANGED <<clock, tokens, issued, lock, wins>>
    /\ UNCHANGED <<ctoken, member_id, token_info, member, closeCode, raw, pending, sent,
                   exc, uuids, registry, calls, inbox>>

\* routers.py lines 22-30: POST /auth/guest calls issue_guest_token
CreateGuestToken(h) ==
    /\ CallIssue(h)
    /\ UNCHANGED wsVars

\* routers.py lines 25-30: the response is built and the request task ends
CreateGuestTokenDone(h) ==
    /\ apc[h] = "ret"
    /\ apc' = [apc EXCEPT ![h] = "done"]
    /\ aarg' = [aarg EXCEPT ![h] = NoArgs]
    /\ anow' = [anow EXCEPT ![h] = 0]
    /\ ares' = [ares EXCEPT ![h] = NoInfo]
    /\ UNCHANGED <<clock, tokens, issued, lock, wins>>
    /\ UNCHANGED wsVars

Next ==
    \/ \E h \in Https : CreateGuestToken(h)
    \/ \E h \in Https : CreateGuestTokenDone(h)
    \/ \E p \in Procs : AuthStep(p) /\ UNCHANGED wsVars
    \/ Tick /\ UNCHANGED wsVars
    \/ \E c \in Conns, t \in PresentedTokens : WsConnect(c, t)
    \/ \E c \in Conns : AfterClaim(c)
    \/ \E c \in Conns : Join(c)
    \/ \E c \in Conns : LoopTop(c)
    \/ \E c \in Conns, r \in Raws : Recv(c, r)
    \/ \E c \in Conns : RecvTimeout(c)
    \/ \E c \in Conns : RecvDisconnect(c)
    \/ \E c \in Conns : Dispatch(c)
    \/ \E c \in Conns : Resume(c)
    \/ \E c \in Conns : Finally(c)
    \/ \E c \in Conns : AfterDisconnect(c)
    \/ \E c \in Conns : AfterRevoke(c)

Spec == Init /\ [][Next]_vars

\* The AuthManager alone, called directly by concurrent tasks.
AuthNext ==
    \/ \E p \in Conns : CallIssue(p) /\ UNCHANGED wsVars
    \/ \E p \in Conns, t \in TokenArgs :
          CallClaim(p, t, CallerId[p]) /\ UNCHANGED wsVars
    \/ \E p \in Conns, t \in TokenArgs : CallRevoke(p, t) /\ UNCHANGED wsVars
    \/ \E p \in Conns : Return(p) /\ UNCHANGED wsVars
    \/ \E p \in Conns : AuthStep(p) /\ UNCHANGED wsVars
    \/ Tick /\ UNCHANGED wsVars

SpecAuth == Init /\ [][AuthNext]_vars

\* The first connection alone, with the request that issues its token.
FirstConn == ConnSeq[1]

\* the steps the event loop runs for connection c once their awaited call
\* has returned: everything but the arrival of input and the peer's closing
SessionStep(c) ==
    \/ AuthStep(c) /\ UNCHANGED wsVars
    \/ AfterClaim(c)
    \/ Join(c)
    \/ LoopTop(c)
    \/ RecvTimeout(c)
    \/ Dispatch(c)
    \/ Resume(c)
    \/ Finally(c)
    \/ AfterDisconnect(c)
    \/ AfterRevoke(c)

\* the latest instant that matters: the time bound, or the expiry of a
\* credential held by a session that has not ended
Deadlines ==
    {MaxTicks * TickSeconds} \cup
    {token_info[c].expires_at : c \in {d \in Conns : ClaimSucceeded(d) /\ pc[d] # "done"}}
LiveHorizon == CHOOSE m \in Deadlines : \A x \in Deadlines : x <= m

\* time goes on while a running session's credential is unexpired
TickLive == TickUntil(LiveHorizon) /\ UNCHANGED wsVars

LiveNext ==
    \/ \E h \in Https : CreateGuestToken(h)
    \/ \E h \in Https : CreateGuestTokenDone(h)
    \/ \E h \in Https : AuthStep(h) /\ UNCHANGED wsVars
    \/ TickLive
    \/ \E t \in PresentedTokens : WsConnect(FirstConn, t)
    \/ SessionStep(FirstConn)
    \/ \E r \in Raws : Recv(FirstConn, r)
    \/ RecvDisconnect(FirstConn)

\* Two connections, one task each, next to the requests that issue their
\* tokens: the i-th client presents the i-th token handed out, so both
\* sessions can run at once, and the messages go to either of them.
SessionNext ==
    \/ \E h \in SessionHttps : CreateGuestToken(h)
    \/ \E h \in SessionHttps : CreateGuestTokenDone(h)
    \/ \E h \in SessionHttps : AuthStep(h) /\ UNCHANGED wsVars
    \/ Tick /\ UNCHANGED wsVars
    \/ \E i \in 1..Len(ConnSeq) : WsConnect(ConnSeq[i], TokenSeq[i])
    \/ \E c \in Conns : SessionStep(c)
    \/ \E c \in Conns, r \in SessionRaws : Receive(c, r, MaxSessionMsgs)
    \/ \E c \in Conns : RecvDisconnect(c)

SpecSession == Init /\ [][SessionNext]_vars

\* Time advances, and every task whose awaited call has returned is run by
\* the event loop; input and disconnects come as the peer pleases.
SpecLive ==
    /\ Init /\ [][LiveNext]_vars
    /\ WF_vars(TickLive)
    /\ WF_vars(SessionStep(FirstConn))
    /\ \A h \in Https : WF_vars(AuthStep(h) /\ UNCHANGED wsVars)

\* ------------------------------------------------------------ properties
\* task p is at the return of a call of the given AuthManager method
Returned(p, op) == apc[p] = "ret" /\ aarg[p].op = op

\* task p leaves the given position of an AuthManager method in this step
Leaves(p, pos) == apc[p] = pos /\ apc'[p] # pos

\* every credential other than t is left as it is by this step
OthersUnchanged(t) ==
    \A u \in DOMAIN tokens \ {t} : u \in DOMAIN tokens' /\ tokens'[u] = tokens[u]

\* C1: claim_token returns a token's credential at most once, however the
\* calls interleave; a claimer that gets the lock while the token is live,
\* unexpired and unclaimed goes on to win, a claimer that finds it absent or
\* claimed gets None, and the credential a winner gets carries the winner's
\* identity and is the one stored.
C1_AtMostOne ==
    /\ \A t \in TokenIds : wins[t] <= 1
    /\ \A p \in Procs : Returned(p, "claim") /\ ares[p] # NoInfo =>
          /\ ares[p].token = aarg[p].token
          /\ ares[p].member_id = aarg[p].member_id
          /\ aarg[p].token \in DOMAIN tokens => tokens[aarg[p].token] = ares[p]
    /\ \A p, q \in Procs :
          p # q /\ Returned(p, "claim") /\ Returned(q, "claim")
               /\ aarg[p].token = aarg[q].token
          => ares[p] = NoInfo \/ ares[q] = NoInfo

C1_Step ==
    \A p \in Procs : Leaves(p, "claim_lock") =>
        LET t == aarg[p].token
        IN  IF t \in DOMAIN tokens /\ tokens[t].member_id = None
            THEN clock < tokens[t].expires_at =>
                    apc'[p] = "claim_set" /\ lock' = p
            ELSE apc'[p] = "ret" /\ ares'[p] = NoInfo

C1_ExactlyOneWinner == []C1_AtMostOne /\ [][C1_Step]_vars

\* two claimers of one live, unexpired token have both returned: one holds
\* the credential with its own identity, the other got None
C1_Witness ==
    \E p, q \in Procs :
        /\ p # q /\ Returned(p, "claim") /\ Returned(q, "claim")
        /\ aarg[p].token = aarg[q].token
        /\ aarg[p].token \in DOMAIN tokens
        /\ clock < tokens[aarg[p].token].expires_at
        /\ ares[p] # NoInfo /\ ares[p].member_id = aarg[p].member_id
        /\ ares[q] = NoInfo
        /\ wins[aarg[p].token] = 1

\* C3: no claim succeeds on a credential past its expiry: when claim_token,
\* holding the lock, accepts the token and goes on to set the claimant and
\* return the credential, the clock is strictly before the credential's
\* expiry, also when the task waited for the lock while time advanced.
C3_ClaimBeforeExpiry ==
    [][\A p \in Procs :
          Leaves(p, "claim_lock") /\ apc'[p] = "claim_set"
          => clock < tokens[aarg[p].token].expires_at]_vars

\* C4: a claim_token call that read the clock at or after the credential's
\* expiry returns None and removes the token from the dict, claimed or not,
\* and leaves every other credential as it is.
C4_Step ==
    \A p \in Procs : Leaves(p, "claim_lock") =>
        LET t == aarg[p].token
        IN  t \in DOMAIN tokens /\ anow[p] >= tokens[t].expires_at =>
               /\ apc'[p] = "ret"
               /\ ares'[p] = NoInfo
               /\ t \notin DOMAIN tokens'
               /\ OthersUnchanged(t)

C4_ExpiredClaimRemoves ==
    /\ [](\A p \in Procs : Returned(p, "claim") /\ ares[p] # NoInfo
                              => anow[p] < ares[p].expires_at)
    /\ [][C4_Step]_vars

\* a claim made at or after the expiry of a credential that another task
\* had claimed returned None, the token is gone, another credential is live
C4_Witness ==
    \E p, q \in Procs :
        /\ p # q /\ Returned(p, "claim") /\ Returned(q, "claim")
        /\ ares[p] = NoInfo /\ ares[q] # NoInfo
        /\ ares[q].token = aarg[p].token
        /\ anow[p] >= ares[q].expires_at
        /\ aarg[p].token \notin DOMAIN tokens
        /\ DOMAIN tokens # {}

\* C5: revoke_token removes exactly the given token when it is live, leaves
\* the dict as it is when the token is absent, None or empty, and revoking
\* twice gives what revoking once gives.
C5_Idempotent ==
    \A t \in TokenArgs :
        LET once == RevokeToken(tokens, t)
        IN  /\ RevokeToken(once, t) = once
            /\ t \notin DOMAIN tokens => once = tokens
            /\ t \in DOMAIN tokens =>
                  /\ DOMAIN once = DOMAIN tokens \ {t}
                  /\ \A u \in DOMAIN once : once[u] = tokens[u]

C5_Step ==
    \A p \in Procs :
        aarg[p].op = "revoke" /\ apc[p] \in {"revoke_enter", "revoke_lock"} /\ apc'[p] = "ret" =>
            LET t == aarg[p].token
            IN  /\ DOMAIN tokens' = DOMAIN tokens \ {t}
                /\ OthersUnchanged(t)
                /\ t \notin DOMAIN tokens => tokens' = tokens

C5_RevokeIdempotent == []C5_Idempotent /\ [][C5_Step]_vars

\* a revoke of a token that was issued has returned, the token is gone and
\* another credential is still live; a second task has revoked the empty token
C5_Witness ==
    \E p, q \in Procs :
        /\ p # q /\ Returned(p, "revoke") /\ Returned(q, "revoke")
        /\ aarg[p].token \in issued
        /\ aarg[p].token \notin DOMAIN tokens
        /\ Falsy(aarg[q].token)
        /\ DOMAIN tokens # {}

\* number of calls to function fn in a log of calls
Count(seq, fn) == Cardinality({i \in 1..Len(seq) : seq[i].item.fn = fn})

\* connection c moves on from the given position of lobby_ws in this step
Moves(c, pos) == pc[c] = pos /\ pc'[c] # pos

\* what connect answered to connection c, None before it was called
ConnectResult(c) ==
    LET at == {i \in 1..Len(calls[c]) : calls[c][i].item.fn = "connect"}
    IN  IF at = {} THEN None ELSE calls[c][CHOOSE i \in at : TRUE].item.res

\* C2: once lobby_ws has ended for a connection whose claim succeeded, by
\* whatever path (TTL elapsed at the loop top, receive timeout, disconnect,
\* connect raising an error or a disconnect, uncaught failure during
\* dispatch), its token is not in the live set, revoke_token was called
\* exactly once, and if connect had returned the participant is out of the
\* registry and disconnect was called exactly once (never otherwise).
C2_CleanupOnce ==
    \A c \in Conns : pc[c] = "done" /\ ClaimSucceeded(c) =>
        /\ ctoken[c] \notin DOMAIN tokens
        /\ Count(calls[c], "revoke_token") = 1
        /\ Count(calls[c], "connect") = 1
        /\ IF member[c] # None
             THEN member[c] \notin registry /\ Count(calls[c], "disconnect") = 1
             ELSE /\ Count(calls[c], "disconnect") = 0
                  /\ ConnectResult(c) \in {"ConnectError", "WebSocketDisconnect"}
                  /\ exc[c] = IF ConnectResult(c) = "ConnectError"
                                THEN "ConnectError" ELSE None

\* C6: when the TTL of an active session's credential has run out, at the
\* loop top or as the timeout of the wait for input, the connection is closed
\* with code 1000 (never 1008) and the loop is left; after cleanup the token
\* is not in the live set and the participant is out of the registry.
C6_Inv ==
    \A c \in Conns : ClaimSucceeded(c) =>
        /\ closeCode[c] \in {NotClosed, <<1000>>}
        /\ closeCode[c] = <<1000>> =>
              /\ pc[c] \in {"finally", "disconnect", "revoke", "done"}
              /\ clock >= token_info[c].expires_at
              /\ exc[c] = None
        /\ closeCode[c] = <<1000>> /\ pc[c] = "done" =>
              /\ ctoken[c] \notin DOMAIN tokens
              /\ member[c] # None /\ member[c] \notin registry

C6_Step ==
    \A c \in Conns :
        /\ Moves(c, "loop") /\ clock >= token_info[c].expires_at
             => pc'[c] = "finally" /\ closeCode'[c] = <<1000>>
        /\ Moves(c, "recv") /\ pc'[c] = "finally"
             => closeCode'[c] \in {<<1000>>, NotClosed}
        /\ Moves(c, "recv") /\ closeCode'[c] # closeCode[c]
             => closeCode'[c] = <<1000>> /\ pc'[c] = "finally"

C6_ExpiryClosesNormally == []C6_Inv /\ [][C6_Step]_vars

\* C7: a connection attempt with no token (None or empty) is closed with
\* code 1008 and nothing else happens: no uuid4 call, no claim_token call, no
\* change of the live set or the registry, no revoke_token call, no frame.
C7_Inv ==
    \A c \in Conns : pc[c] # "idle" /\ Falsy(ctoken[c]) =>
        /\ pc[c] = "done"
        /\ closeCode[c] = <<1008>>
        /\ member_id[c] = None /\ member[c] = None
        /\ calls[c] = <<>> /\ sent[c] = <<>>
        /\ apc[c] = "idle"

C7_Step ==
    \A c \in Conns : Moves(c, "idle") /\ ctoken'[c] \in {None, EmptyStr} =>
        /\ uuids' = uuids
        /\ tokens' = tokens
        /\ registry' = registry
        /\ apc' = apc
        /\ calls' = calls /\ sent' = sent

C7_NoTokenRefused == []C7_Inv /\ [][C7_Step]_vars

\* a connection that came with the empty token has been refused while a
\* credential was live
C7_Witness ==
    \E c \in Conns :
        /\ pc[c] = "done" /\ ctoken[c] = EmptyStr
        /\ closeCode[c] = <<1008>>
        /\ DOMAIN tokens # {}

\* C8: connect and the dispatch loop are reached only after claim_token
\* returned a credential to this connection; when it returns None the
\* connection is closed with code 1008, the participant is never registered,
\* no message is received or dispatched and no frame is sent.
C8_Inv ==
    \A c \in Conns :
        /\ (pc[c] \in {"join", "loop", "recv", "dispatch", "await", "finally",
                       "disconnect", "revoke"}
             \/ member[c] # None \/ calls[c] # <<>> \/ sent[c] # <<>>
             \/ raw[c] # NoRaw \/ pending[c] # NoOp)
           => /\ ClaimSucceeded(c)
              /\ token_info[c].token = ctoken[c]
              /\ token_info[c].member_id = member_id[c]
        /\ pc[c] = "done" /\ ~ClaimSucceeded(c) =>
              /\ closeCode[c] = <<1008>>
              /\ member_id[c] \notin registry

C8_Step ==
    \A c \in Conns : Moves(c, "claim") /\ ares[c] = NoInfo =>
        /\ pc'[c] = "done"
        /\ closeCode'[c] = <<1008>>
        /\ registry' = registry
        /\ tokens' = tokens

C8_ClaimGatesSession == []C8_Inv /\ [][C8_Step]_vars

\* a connection that presented a token another running session holds has
\* been refused
C8_Witness ==
    \E c, d \in Conns :
        /\ c # d
        /\ pc[c] = "done" /\ ~Falsy(ctoken[c]) /\ ~ClaimSucceeded(c)
        /\ closeCode[c] = <<1008>>
        /\ pc[d] = "recv" /\ ctoken[d] = ctoken[c]
        /\ member[d] \in registry

\* ------------------------------------------------- the body of the loop
\* connection c is handling a message: between receive_text returning and
\* the body of the loop being left
InBody(c) == pc[c] \in {"dispatch", "await"}

\* connection c is through with its current message in this step
EndsBody(c) == InBody(c) /\ pc'[c] \notin {"dispatch", "await"}

\* connection c takes a step of the body of the loop
Acts(c) == InBody(c) /\ (pc'[c] # pc[c] \/ pending'[c] # pending[c])

\* the entries of a log made while message number k was handled
OfMessage(seq, k) == LET Test(x) == x.msg = k IN SelectSeq(seq, Test)

\* calls made and frames sent for the current message of connection c, as
\* they stand after this step
MsgCalls(c) == OfMessage(calls'[c], Len(inbox[c]))
MsgFrames(c) == OfMessage(sent'[c], Len(inbox[c]))

\* calls made and frames sent by connection c in this step
NewCalls(c) == SubSeq(calls'[c], Len(calls[c]) + 1, Len(calls'[c]))
NewFrames(c) == SubSeq(sent'[c], Len(sent[c]) + 1, Len(sent'[c]))

\* the functions called in a log of calls, in order
Fns(seq) == [i \in 1..Len(seq) |-> seq[i].item.fn]

\* this step of connection c sends frame f and goes back to the loop top
Replied(c, f) ==
    /\ sent'[c] = Append(sent[c], [msg |-> Len(inbox[c]), item |-> f])
    /\ pc'[c] = "loop"

\* this step of connection c finds the connection closed under send_json:
\* nothing is sent and the handler goes to its cleanup without an error
CutOff(c) ==
    /\ pc[c] = "await" /\ pending[c].kind = "send"
    /\ sent'[c] = sent[c]
    /\ pc'[c] = "finally"
    /\ exc'[c] = None

\* this step of connection c leaves registry, live set, close codes and the
\* logs of the other connections as they are
Quiet(c) ==
    /\ registry' = registry
    /\ tokens' = tokens
    /\ closeCode' = closeCode
    /\ \A d \in Conns \ {c} : sent'[d] = sent[d] /\ calls'[d] = calls[d]

\* C9: no inbound message, of whatever category, ends the dispatch loop or
\* closes the connection with an error: when its handling ends the session
\* is back at the loop top, or the peer was found gone under a send, and at
\* most one frame was sent for it.
C9_MessagesNeverEndLoop ==
    [][\A c \in Conns : EndsBody(c) =>
          /\ pc'[c] = "loop" \/ CutOff(c)
          /\ closeCode'[c] = closeCode[c]
          /\ exc'[c] = None
          /\ Len(MsgFrames(c)) <= 1]_vars

\* the text parses: json.loads returns a value
Parses(r) == ~ParseFails(r) /\ ParseError(r) = None

\* C10: a message that parses but whose type is missing or is none of the
\* seven known ones is silently ignored: no frame, no registry or game call,
\* live set unchanged, and the loop goes on.
C10_UnknownTypeIgnored ==
    [][\A c \in Conns :
          Moves(c, "dispatch") /\ Parses(raw[c]) /\ raw[c].type \notin KnownTypes =>
              /\ pc'[c] = "loop"
              /\ sent' = sent
              /\ calls' = calls
              /\ registry' = registry
              /\ tokens' = tokens]_vars

\* ---------------------------------------------------------------- C11
\* C11: a text that json.loads does not turn into a value never closes the
\* connection, sends no frame, makes no registry or game call, leaves
\* registry and live set as they are, and takes the session back to the loop
\* top, where the remaining TTL is computed again before the next receive.
C11_ParseFailureSkipped ==
    [][\A c \in Conns :
          /\ Moves(c, "dispatch") /\ ~Parses(raw[c]) =>
                /\ pc'[c] = "loop"
                /\ exc'[c] = None
                /\ closeCode' = closeCode
                /\ sent' = sent
                /\ calls' = calls
                /\ registry' = registry
                /\ tokens' = tokens
                /\ token_info' = token_info
          /\ Moves(c, "loop") =>
                IF clock < token_info[c].expires_at
                  THEN pc'[c] = "recv" /\ closeCode'[c] = closeCode[c]
                  ELSE pc'[c] = "finally"]_vars

\* ---------------------------------------------------------------- C12
\* connection c is handling a ping
HandlesPing(c) == InBody(c) /\ raw[c].json = "object" /\ raw[c].type = "ping"

\* C12 as stated: every ping yields exactly one pong frame on the connection
\* it came from, nothing else happens, and the session is back at the loop
\* top.
C12_PingAlwaysPong ==
    [][\A c \in Conns : HandlesPing(c) /\ EndsBody(c) =>
          /\ Replied(c, [type |-> "pong", message |-> None])
          /\ Len(MsgFrames(c)) = 1
          /\ MsgCalls(c) = <<>>
          /\ exc'[c] = None
          /\ Quiet(c)]_vars

\* C12: a ping makes no registry or game call and changes neither registry
\* nor live set nor another connection's frames; its handling ends either
\* with exactly one frame, {"type": "pong"}, sent on the connection it came
\* from and the session back at the loop top, or, when the connection is
\* found closed under the send, with no frame and the handler in its cleanup
\* without an error.
C12_Step ==
    \A c \in Conns :
        /\ HandlesPing(c) /\ Acts(c) =>
              calls' = calls /\ Quiet(c) /\ exc'[c] = None
        /\ HandlesPing(c) /\ Acts(c) /\ ~EndsBody(c) => sent' = sent
        /\ HandlesPing(c) /\ EndsBody(c) =>
              /\ Replied(c, [type |-> "pong", message |-> None]) \/ CutOff(c)
              /\ Len(MsgFrames(c)) <= 1
              /\ MsgCalls(c) = <<>>

C12_PingYieldsPong == [][C12_Step]_vars

\* a session back at the loop top with the pong to its one ping sent
C12_Witness ==
    \E c \in Conns :
        /\ pc[c] = "loop"
        /\ Len(inbox[c]) = 1 /\ inbox[c][1].type = "ping"
        /\ Len(sent[c]) = 1 /\ sent[c][1].item.type = "pong"
        /\ Count(calls[c], "connect") = Len(calls[c])
        /\ member[c] \in registry

\* a session that found the connection closed when it sent the pong, and
\* has been cleaned up
C12_WitnessCutOff ==
    \E c \in Conns :
        /\ pc[c] = "done" /\ exc[c] = None /\ closeCode[c] = NotClosed
        /\ Len(inbox[c]) = 1 /\ inbox[c][1].type = "ping"
        /\ sent[c] = <<>>
        /\ member[c] # None /\ member[c] \notin registry

\* ---------------------------------------------------------------- C13
\* connection c is handling a game_action
HandlesGameAction(c) ==
    InBody(c) /\ raw[c].json = "object" /\ raw[c].type = "game_action"

\* connection c starts on a game_action in this step
DispatchesGameAction(c) == HandlesGameAction(c) /\ pc[c] = "dispatch"

\* the sender of the game_action connection c is handling was found in no
\* room
NotInRoom(c) ==
    /\ HandlesGameAction(c)
    /\ Len(MsgCalls(c)) >= 1
    /\ MsgCalls(c)[1].item.res = None

\* C13 as stated: a game_action of a sender in no room always yields exactly
\* one game_error frame "You are not in a room.", calls neither the game
\* applier nor a broadcast, and leaves the loop running.
C13_NotInRoomAlwaysReplied ==
    [][\A c \in Conns : NotInRoom(c) /\ EndsBody(c) =>
          /\ Replied(c, [type |-> "game_error",
                         message |-> "You are not in a room."])
          /\ Len(MsgFrames(c)) = 1
          /\ Fns(MsgCalls(c)) = <<"get_room_id_for_member">>
          /\ exc'[c] = None]_vars

\* C13: a game_action first asks the registry for the sender's room; when
\* the answer is that the sender is in no room nothing else is called (no
\* get_room, no apply_action, no broadcast), and the handling ends either
\* with exactly one game_error frame with the message "You are not in a
\* room." and the session back at the loop top, or, when the connection is
\* found closed under the send, with no frame and the handler in its cleanup
\* without an error.
C13_Step ==
    \A c \in Conns :
        /\ DispatchesGameAction(c) /\ pc'[c] # "dispatch" =>
              /\ Len(NewCalls(c)) >= 1
              /\ NewCalls(c)[1].item.fn = "get_room_id_for_member"
              /\ NewCalls(c)[1].item.arg = <<member[c]>>
        /\ NotInRoom(c) /\ Acts(c) /\ ~EndsBody(c) => sent' = sent /\ Quiet(c)
        /\ NotInRoom(c) /\ EndsBody(c) =>
              /\ \/ Replied(c, [type |-> "game_error",
                                message |-> "You are not in a room."])
                 \/ CutOff(c)
              /\ Len(MsgFrames(c)) <= 1
              /\ Fns(MsgCalls(c)) = <<"get_room_id_for_member">>
              /\ exc'[c] = None
              /\ Quiet(c)

C13_NotInRoom == [][C13_Step]_vars

\* a session back at the loop top after a game_action sent while in no room
C13_Witness ==
    \E c \in Conns :
        /\ pc[c] = "loop"
        /\ Len(inbox[c]) = 1 /\ inbox[c][1].type = "game_action"
        /\ Fns(calls[c]) = <<"connect", "get_room_id_for_member">>
        /\ calls[c][2].item.res = None
        /\ Len(sent[c]) = 1
        /\ sent[c][1].item.message = "You are not in a room."

\* ---------------------------------------------------------------- C14
\* the sender of the game_action connection c is handling has a room id that
\* resolved to no room, or to a room without a game
NoActiveGame(c) ==
    /\ HandlesGameAction(c)
    /\ Len(MsgCalls(c)) >= 2
    /\ MsgCalls(c)[1].item.res # None
    /\ MsgCalls(c)[2].item.res \in {None, "no game"}

\* C14 as stated: a game_action for a room without a game, or for a room id
\* that resolves to no room, always yields exactly one game_error frame "No
\* active game.", calls neither the game applier nor a broadcast, and leaves
\* the loop running.
C14_NoActiveGameAlwaysReplied ==
    [][\A c \in Conns : NoActiveGame(c) /\ EndsBody(c) =>
          /\ Replied(c, [type |-> "game_error", message |-> "No active game."])
          /\ Len(MsgFrames(c)) = 1
          /\ Fns(MsgCalls(c)) = <<"get_room_id_for_member", "get_room">>
          /\ exc'[c] = None]_vars

\* C14: when the sender of a game_action has a room id, get_room is asked
\* for that room; when it answers no room, or a room without a game, neither
\* apply_action nor the broadcast is called, and the handling ends either
\* with exactly one game_error frame with the message "No active game." and
\* the session back at the loop top, or, when the connection is found closed
\* under the send, with no frame and the handler in its cleanup without an
\* error.
C14_Step ==
    \A c \in Conns :
        /\ DispatchesGameAction(c) /\ pc'[c] # "dispatch"
           /\ NewCalls(c)[1].item.res # None
           => /\ Len(NewCalls(c)) = 2
              /\ NewCalls(c)[2].item.fn = "get_room"
              /\ NewCalls(c)[2].item.arg = <<NewCalls(c)[1].item.res>>
        /\ NoActiveGame(c) /\ Acts(c) /\ ~EndsBody(c) => sent' = sent /\ Quiet(c)
        /\ NoActiveGame(c) /\ EndsBody(c) =>
              /\ \/ Replied(c, [type |-> "game_error",
                                message |-> "No active game."])
                 \/ CutOff(c)
              /\ Len(MsgFrames(c)) <= 1
              /\ Fns(MsgCalls(c)) = <<"get_room_id_for_member", "get_room">>
              /\ exc'[c] = None
              /\ Quiet(c)

C14_NoActiveGame == [][C14_Step]_vars

\* a session back at the loop top after a game_action for a room id that
\* resolved to no room
C14_Witness ==
    \E c \in Conns :
        /\ pc[c] = "loop"
        /\ Len(inbox[c]) = 1 /\ inbox[c][1].type = "game_action"
        /\ Fns(calls[c]) = <<"connect", "get_room_id_for_member", "get_room">>
        /\ calls[c][3].item.res = None
        /\ Len(sent[c]) = 1
        /\ sent[c][1].item.message = "No active game."

\* the same for a room that has no game
C14_WitnessNoGame ==
    \E c \in Conns :
        /\ pc[c] = "loop"
        /\ Fns(calls[c]) = <<"connect", "get_room_id_for_member", "get_room">>
        /\ calls[c][3].item.res = "no game"
        /\ Len(sent[c]) = 1
        /\ sent[c][1].item.message = "No active game."

\* ---------------------------------------------------------------- C15
\* connection c is registered as an active session
Registered(c) == member[c] # None /\ member[c] \in registry

\* connections that ever held the credential of token t
Holders(t) == {c \in Conns : ClaimSucceeded(c) /\ token_info[c].token = t}

\* C15 as stated: a registered participant's credential is in the live set,
\* claimed by that participant, and unexpired, in every reachable state; and
\* no credential ever has more than one session.
C15_SessionOnlyWhileUnexpired ==
    /\ \A c \in Conns : Registered(c) =>
          /\ ctoken[c] \in DOMAIN tokens
          /\ tokens[ctoken[c]].member_id = member[c]
          /\ clock < tokens[ctoken[c]].expires_at
    /\ \A t \in TokenIds : Cardinality(Holders(t)) <= 1 /\ wins[t] <= 1

\* C15, amended: a registered participant holds the credential claim_token
\* returned for its own identity, and for as long as that credential is
\* unexpired it is in the live set with this participant as claimant; after
\* the expiry the session can still be registered, until its loop next looks
\* at the TTL and cleanup has run. No credential ever has more than one
\* session, at the same time or over its lifetime.
C15_SessionHoldsItsCredential ==
    /\ \A c \in Conns : Registered(c) =>
          /\ ClaimSucceeded(c)
          /\ token_info[c].token = ctoken[c]
          /\ token_info[c].member_id = member[c]
          /\ clock < token_info[c].expires_at =>
                /\ ctoken[c] \in DOMAIN tokens
                /\ tokens[ctoken[c]] = token_info[c]
    /\ \A t \in TokenIds : Cardinality(Holders(t)) <= 1 /\ wins[t] <= 1

\* a registered session awaiting a call made for a message, its credential
\* live and unexpired, while another connection is presenting the same token
C15_Witness ==
    \E c, d \in Conns :
        /\ c # d
        /\ Registered(c) /\ pc[c] = "await" /\ pending[c].kind = "call"
        /\ clock < token_info[c].expires_at
        /\ tokens[ctoken[c]].member_id = member[c]
        /\ pc[d] = "claim" /\ ctoken[d] = ctoken[c]

\* ---------------------------------------------------------------- C16
\* connection c was refused: lobby_ws returned at line 44 or line 49
Refused(c) == pc[c] = "done" /\ ~ClaimSucceeded(c)

\* connection d runs the session that holds token t
RunsSession(d, t) ==
    /\ ClaimSucceeded(d) /\ token_info[d].token = t
    /\ pc[d] \in {"loop", "recv", "dispatch", "await"}

\* C16: a connection that is refused, for want of a token or because
\* claim_token returned None, never calls revoke_token (nor any registry
\* function). Refusing a connection that presented a token claimed by a
\* running session and unexpired leaves the live set, the registry and every
\* other connection as they are: the credential is still live with the
\* owner as claimant, the owner is registered and its loop goes on.
C16_Inv ==
    \A c \in Conns :
        /\ (Count(calls[c], "revoke_token") > 0 \/ aarg[c].op = "revoke"
              \/ pc[c] \in {"finally", "disconnect", "revoke"})
           => ClaimSucceeded(c)
        /\ Refused(c) => calls[c] = <<>>
        /\ \A d \in Conns \ {c} :
              /\ Refused(c)
              /\ RunsSession(d, ctoken[c])
              /\ clock < token_info[d].expires_at
              => /\ ctoken[c] \in DOMAIN tokens
                 /\ tokens[ctoken[c]].member_id = member[d]
                 /\ tokens[ctoken[c]] = token_info[d]
                 /\ Registered(d)

C16_Step ==
    \A c \in Conns :
        /\ Leaves(c, "claim_lock") /\ aarg[c].op = "claim"
              /\ aarg[c].token \in DOMAIN tokens
              /\ Claimed(tokens[aarg[c].token])
              /\ anow[c] < tokens[aarg[c].token].expires_at
           => /\ tokens' = tokens
              /\ ares'[c] = NoInfo
              /\ registry' = registry
              /\ \A d \in Conns \ {c} : pc'[d] = pc[d]
        /\ Moves(c, "claim") /\ ares[c] = NoInfo =>
              /\ pc'[c] = "done"
              /\ tokens' = tokens
              /\ registry' = registry
              /\ calls' = calls
              /\ \A d \in Conns \ {c} : pc'[d] = pc[d] /\ apc'[d] = apc[d]

C16_RefusalLeavesOwnerAlone == []C16_Inv /\ [][C16_Step]_vars

\* a second connection was refused for the token of a session that has
\* since handled a message and is waiting for the next
C16_Witness ==
    \E c, d \in Conns :
        /\ c # d
        /\ Refused(c) /\ ctoken[c] \in TokenIds
        /\ RunsSession(d, ctoken[c]) /\ pc[d] = "recv"
        /\ Len(inbox[d]) = 1
        /\ clock < token_info[d].expires_at
        /\ tokens[ctoken[c]].member_id = member[d]

\* ---------------------------------------------------------------- C18
\* the registry answered the game_action connection c is handling with a
\* room that has an active game
InGame(c) ==
    /\ HandlesGameAction(c)
    /\ Len(MsgCalls(c)) >= 2
    /\ MsgCalls(c)[1].item.res # None
    /\ MsgCalls(c)[2].item.res \notin {None, "no game"}

\* The handling of a game_action in a room with a game ends in this step of
\* connection c: apply_action was called exactly once, with the room's game
\* id, the sender's identity, the action name of the message and its
\* payload, the empty object standing in for the payloads in empty. When it
\* raised GameRuleError nothing was broadcast and one game_error frame with
\* the error's message is sent (or, if cut says so, the connection is found
\* closed under the send); when it returned, broadcast_game_update was called
\* exactly once for the room, no frame was sent and the loop goes on.
GameActionHandled(c, empty, cut) ==
    /\ Len(MsgCalls(c)) >= 3
    /\ SubSeq(Fns(MsgCalls(c)), 1, 3) =
          <<"get_room_id_for_member", "get_room", "apply_action">>
    /\ MsgCalls(c)[3].item.arg =
          <<MsgCalls(c)[2].item.res, member[c], raw[c].action,
            IF raw[c].payload \in empty THEN "{}" ELSE raw[c].payload>>
    /\ IF MsgCalls(c)[3].item.res = "GameRuleError"
         THEN /\ Len(MsgCalls(c)) = 3
              /\ \/ Replied(c, [type |-> "game_error",
                                message |-> "Illegal action."])
                 \/ cut /\ CutOff(c)
              /\ Len(MsgFrames(c)) <= 1
         ELSE /\ Len(MsgCalls(c)) = 4
              /\ MsgCalls(c)[4].item.fn = "broadcast_game_update"
              /\ MsgCalls(c)[4].item.arg = <<MsgCalls(c)[1].item.res>>
              /\ MsgFrames(c) = <<>>
              /\ pc'[c] = "loop"
    /\ exc'[c] = None
    /\ closeCode' = closeCode

\* C18 as stated: the payload is replaced by the empty one only when the
\* message has none, and a rule violation always yields its game_error frame
\* and leaves the loop running.
C18_AlwaysAppliedAndReported ==
    [][\A c \in Conns :
          InGame(c) /\ EndsBody(c) => GameActionHandled(c, {None}, FALSE)]_vars

\* C18: for a game_action whose sender's room has an active game,
\* apply_action is called exactly once, with the room's game id, the
\* sender's identity, the action name of the message and its payload (the
\* empty object when the message has none or a falsy one). When it raises
\* GameRuleError nothing is broadcast and the handling ends either with
\* exactly one game_error frame with the error's message and the session
\* back at the loop top, or, when the connection is found closed under the
\* send, with no frame and the handler in its cleanup without an error. When
\* it returns, broadcast_game_update is called exactly once for the room, no
\* frame is sent and the loop goes on.
C18_Step ==
    \A c \in Conns :
        /\ InGame(c) /\ Acts(c) /\ ~EndsBody(c) => sent' = sent /\ Quiet(c)
        /\ InGame(c) /\ EndsBody(c) => GameActionHandled(c, {None, "0"}, TRUE)

C18_GameActionApplied == [][C18_Step]_vars

\* a session back at the loop top after a game_action without payload was
\* applied and broadcast
C18_Witness ==
    \E c \in Conns :
        /\ pc[c] = "loop"
        /\ Len(inbox[c]) = 1 /\ inbox[c][1].type = "game_action"
        /\ inbox[c][1].payload = None
        /\ Fns(calls[c]) = <<"connect", "get_room_id_for_member", "get_room",
                             "apply_action", "broadcast_game_update">>
        /\ calls[c][4].item.arg[4] = "{}"
        /\ sent[c] = <<>>

\* a session back at the loop top after apply_action raised GameRuleError
C18_WitnessRule ==
    \E c \in Conns :
        /\ pc[c] = "loop"
        /\ Fns(calls[c]) = <<"connect", "get_room_id_for_member", "get_room",
                             "apply_action">>
        /\ calls[c][4].item.res = "GameRuleError"
        /\ Len(sent[c]) = 1 /\ sent[c][1].item.type = "game_error"

\* a session cleaned up after the connection was found closed when the
\* game_error for a rule violation was sent
C18_WitnessCutOff ==
    \E c \in Conns :
        /\ pc[c] = "done" /\ exc[c] = None
        /\ Len(inbox[c]) = 1 /\ inbox[c][1].type = "game_action"
        /\ \E i \in 1..Len(calls[c]) : calls[c][i].item.res = "GameRuleError"
        /\ sent[c] = <<>>

\* ---------------------------------------------------------------- C19
\* connection c is handling a create_room, join_room or start_game
HandlesRegOp(c) == InBody(c) /\ raw[c].json = "object" /\ raw[c].type \in RegOps

\* The handling of a create_room, join_room or start_game ends in this step
\* of connection c: the registry function of that name was called exactly
\* once, for the sender, and nothing else; when it reported failure one
\* error frame with the reason it gave is sent (or, if cut says so, the
\* connection is found closed under the send), when it reported success no
\* frame was sent and the loop goes on.
RegOpHandled(c, cut) ==
    /\ Len(MsgCalls(c)) = 1
    /\ MsgCalls(c)[1].item.fn = raw[c].type
    /\ MsgCalls(c)[1].item.arg = <<member[c]>>
    /\ IF MsgCalls(c)[1].item.res = "ok"
         THEN MsgFrames(c) = <<>> /\ pc'[c] = "loop"
         ELSE /\ \/ Replied(c, [type |-> "error",
                                message |-> MsgCalls(c)[1].item.res])
                 \/ cut /\ CutOff(c)
              /\ Len(MsgFrames(c)) <= 1
    /\ exc'[c] = None
    /\ Quiet(c)

\* C19 as stated: a failure the registry reports always yields its error
\* frame, and the loop goes on in every case.
C19_AlwaysReported ==
    [][\A c \in Conns : HandlesRegOp(c) /\ EndsBody(c) => RegOpHandled(c, FALSE)]_vars

\* C19: create_room, join_room and start_game call the registry function of
\* that name exactly once, for the sender, and nothing else. When it reports
\* success no frame is sent and the loop goes on; when it reports failure
\* the handling ends either with exactly one error frame with the reason it
\* gave and the session back at the loop top, or, when the connection is
\* found closed under the send, with no frame and the handler in its cleanup
\* without an error.
C19_Step ==
    \A c \in Conns :
        /\ HandlesRegOp(c) /\ Acts(c) /\ ~EndsBody(c) =>
              /\ sent' = sent /\ Quiet(c)
              /\ Len(MsgCalls(c)) <= 1
        /\ HandlesRegOp(c) /\ EndsBody(c) => RegOpHandled(c, TRUE)

C19_RegistryOpReported == [][C19_Step]_vars

\* a session back at the loop top with the error frame for a join_room the
\* registry refused
C19_Witness ==
    \E c \in Conns :
        /\ pc[c] = "loop"
        /\ Len(inbox[c]) = 1 /\ inbox[c][1].type = "join_room"
        /\ Fns(calls[c]) = <<"connect", "join_room">>
        /\ calls[c][2].item.res = "Room is full."
        /\ Len(sent[c]) = 1
        /\ sent[c][1].item = [type |-> "error", message |-> "Room is full."]

\* a session back at the loop top after a start_game the registry accepted
C19_WitnessOk ==
    \E c \in Conns :
        /\ pc[c] = "loop"
        /\ Len(inbox[c]) = 1 /\ inbox[c][1].type = "start_game"
        /\ Fns(calls[c]) = <<"connect", "start_game">>
        /\ calls[c][2].item.res = "ok"
        /\ sent[c] = <<>>

\* a session cleaned up after the connection was found closed when the
\* error frame for a refused create_room was sent
C19_WitnessCutOff ==
    \E c \in Conns :
        /\ pc[c] = "done" /\ exc[c] = None
        /\ Len(inbox[c]) = 1 /\ inbox[c][1].type = "create_room"
        /\ \E i \in 1..Len(calls[c]) :
              calls[c][i].item.fn = "create_room" /\ calls[c][i].item.res # "ok"
        /\ sent[c] = <<>>

\* ---------------------------------------------------------------- C17
\* lobby_ws has ended for connection c and nothing of its session is left:
\* the token is out of the live set, the participant out of the registry
Ended(c) ==
    /\ pc[c] = "done"
    /\ ctoken[c] \notin DOMAIN tokens
    /\ member[c] \notin registry

\* lobby_manager.disconnect raised when connection c called it
DisconnectRaised(c) == pc[c] = "done" /\ exc[c] = "DisconnectError"

\* C17 as stated: every session that becomes active eventually ends, with
\* its token out of the live set and its participant out of the registry,
\* and from the expiry of its credential on it takes no further input: at
\* the loop top and in the wait for input its only way is out.
C17_EndsAtExpiry ==
    /\ \A c \in Conns : Registered(c) ~> (Ended(c) \/ DisconnectRaised(c))
    /\ [][\A c \in Conns :
             /\ clock >= token_info[c].expires_at
             /\ Moves(c, "loop") \/ Moves(c, "recv")
             => pc'[c] = "finally"]_vars

\* C17: when time advances and every awaited call returns, every session
\* that becomes active (its participant is registered) eventually ends, with
\* its token out of the live set and its participant out of the registry.
\* From the expiry of its credential on, the loop top leads only to cleanup;
\* a wait for input begun before the expiry can still return a text, and
\* once a message is being handled at or after the expiry the session never
\* waits for input again.
C17_Step ==
    \A c \in Conns :
        /\ clock >= token_info[c].expires_at /\ Moves(c, "loop")
             => pc'[c] = "finally"
        /\ Moves(c, "recv") => pc'[c] \in {"dispatch", "finally"}
        /\ pc'[c] = "recv" /\ pc[c] # "recv"
             => pc[c] = "loop" /\ clock < token_info[c].expires_at

C17_SessionEnds ==
    /\ \A c \in Conns : Registered(c) ~> (Ended(c) \/ DisconnectRaised(c))
    /\ \A c \in Conns :
          [](InBody(c) /\ clock >= token_info[c].expires_at => [](pc[c] # "recv"))
    /\ [][C17_Step]_vars

\* a session whose token was issued after time zero, so that its credential
\* expired beyond the time bound, was ended by the expiry and cleaned up
C17_Witness ==
    \E c \in Conns :
        /\ Ended(c) /\ ClaimSucceeded(c)
        /\ member[c] # None
        /\ token_info[c].issued_at > 0
        /\ clock >= token_info[c].expires_at
        /\ closeCode[c] = <<1000>>
        /\ exc[c] = None

\* ---------------------------------------------------------------- C20
\* the entries of a log that belong to a message
OfMessages(seq) == LET Test(x) == x.msg > 0 IN SelectSeq(seq, Test)

\* the message numbers of a log never go down
InMessageOrder(seq) ==
    \A i \in 1..(Len(seq) - 1) : seq[i].msg <= seq[i + 1].msg

\* number of messages of connection c whose handling has completed
Dispatched(c) == IF InBody(c) THEN Len(inbox[c]) - 1 ELSE Len(inbox[c])

\* the functions the handling of text r can call, and the types of the
\* frames it can send
FnsFor(r) ==
    IF ~Parses(r) \/ ~HasGet(r) THEN {}
    ELSE IF r.type \in {"rename", "leave_room"} \cup RegOps THEN {r.type}
    ELSE IF r.type = "game_action"
      THEN {"get_room_id_for_member", "get_room", "apply_action",
            "broadcast_game_update"}
    ELSE {}
FrameTypesFor(r) ==
    IF ~Parses(r) \/ ~HasGet(r) THEN {}
    ELSE IF r.type = "ping" THEN {"pong"}
    ELSE IF r.type \in RegOps THEN {"error"}
    ELSE IF r.type = "game_action" THEN {"game_error"}
    ELSE {}

\* C20: within a session messages are handled one at a time in the order of
\* arrival. A text is received only while the session waits for input, when
\* the handling of every earlier message has ended and no call or send is
\* awaited; the message being handled is the last one that arrived; the
\* calls and frames of a connection are those of its messages, message by
\* message in arrival order, each made while that message was the one being
\* handled; and a step that changes the log of a connection is a step of
\* that connection, whatever the other connections do: a step that receives
\* for a connection or changes what it is handling, awaiting or has logged
\* leaves the position, the inbox, the message, the awaited call and the logs
\* of every other connection as they were, also while those are in the
\* middle of handling messages of their own.
C20_Inv ==
    \A c \in Conns :
        /\ InBody(c) => Len(inbox[c]) >= 1 /\ raw[c] = inbox[c][Len(inbox[c])]
        /\ ~InBody(c) => pending[c] = NoOp /\ raw[c] = NoRaw
        /\ InMessageOrder(sent[c])
        /\ InMessageOrder(OfMessages(calls[c]))
        /\ \A i \in 1..Len(sent[c]) :
              /\ sent[c][i].msg \in 1..Len(inbox[c])
              /\ sent[c][i].item.type \in FrameTypesFor(inbox[c][sent[c][i].msg])
        /\ \A i \in 1..Len(calls[c]) :
              /\ calls[c][i].msg \in 0..Len(inbox[c])
              /\ calls[c][i].msg > 0 =>
                    calls[c][i].item.fn \in FnsFor(inbox[c][calls[c][i].msg])
        /\ \A k \in 1..Len(inbox[c]) : Len(OfMessage(sent[c], k)) <= 1

C20_Step ==
    \A c \in Conns :
        /\ inbox'[c] # inbox[c] =>
              /\ pc[c] = "recv" /\ pc'[c] = "dispatch"
              /\ pending[c] = NoOp
              /\ Dispatched(c) = Len(inbox[c])
              /\ Len(inbox'[c]) = Len(inbox[c]) + 1
              /\ SubSeq(inbox'[c], 1, Len(inbox[c])) = inbox[c]
              /\ sent'[c] = sent[c] /\ calls'[c] = calls[c]
        /\ sent'[c] # sent[c] \/ calls'[c] # calls[c] =>
              /\ pc'[c] # pc[c] \/ pending'[c] # pending[c]
              /\ inbox' = inbox
              /\ SubSeq(sent'[c], 1, Len(sent[c])) = sent[c]
              /\ SubSeq(calls'[c], 1, Len(calls[c])) = calls[c]
              /\ \A i \in 1..Len(NewFrames(c)) :
                    InBody(c) /\ NewFrames(c)[i].msg = Len(inbox[c])
              /\ \A i \in 1..Len(NewCalls(c)) :
                    NewCalls(c)[i].msg = IF InBody(c) THEN Len(inbox[c]) ELSE 0
              /\ \A d \in Conns \ {c} : sent'[d] = sent[d] /\ calls'[d] = calls[d]
        /\ \/ inbox'[c] # inbox[c] \/ raw'[c] # raw[c] \/ pending'[c] # pending[c]
           \/ sent'[c] # sent[c] \/ calls'[c] # calls[c]
           => \A d \in Conns \ {c} :
                 /\ pc'[d] = pc[d] /\ inbox'[d] = inbox[d] /\ raw'[d] = raw[d]
                 /\ pending'[d] = pending[d]
                 /\ sent'[d] = sent[d] /\ calls'[d] = calls[d]

====
